---- MODULE Spec2Model ----
(***************************************************************************)
(* Model of server/controllers/user.account.controller.js: the handlers    *)
(* createUser, loginUser, isTokenOk and the helpers validateClientToken    *)
(* and isUserExist, together with the collaborators they call (the         *)
(* UserAccount store, bcryptjs, jsonwebtoken, the response helpers).       *)
(*                                                                         *)
(* createUser suspends at its awaits, so it is modelled as a process per   *)
(* in-flight request: the request is validated when it arrives (line 19),  *)
(* then waits for findOne (line 23), then for hash and save (29-39).       *)
(* loginUser has one await (findOne, line 57) and works from the document  *)
(* it got there; documents are never updated, so the handler is one step.  *)
(*                                                                         *)
(* Spec runs every handler with two createUser requests interleaving, at   *)
(* one instant of the clock; SpecClock runs every handler while the clock  *)
(* advances, with createUser requests one at a time.                       *)
(***************************************************************************)
EXTENDS Integers, Sequences, FiniteSets, TLC

\* ------------------------------------------------------------- bounds
\* accounts the store may hold
MaxUsers == 2
\* the clock advances in steps of TickSeconds up to MaxTime (seconds)
TickSeconds == 1800
MaxTime == 5400

\* ------------------------------------------------------------- constants
\* bcryptjs.hash(password, 10)
SaltRounds == 10
\* jwt.sign(..., { expiresIn: '1h' }) in seconds
ExpiresIn == 3600

\* the createUser requests that may be in flight together
Procs == {1, 2}

\* process.env.JWT_SECRET, and a key that is not the secret
JWT_SECRET == "JWT_SECRET"
OtherKey == "other key"

\* request inputs: "" is an empty (or missing) field
Names == {"Alice", ""}
Emails == {"a@x.com", "b@x.com", ""}
Passwords == {"Secret123!", "Other456!", ""}

VARIABLES
    store,     \* the UserAccount collection, in insertion order
    pc,        \* pc[p]: where createUser request p is suspended
    body,      \* body[p]: req.body of createUser request p
    overlap,   \* history: two createUser requests were in flight together
    now,       \* the clock, in seconds
    jar,       \* the client's access_token cookie
    last       \* the last request answered and its outcome

vars == <<store, pc, body, overlap, now, jar, last>>

\* ------------------------------------------------------------- values
NoData == [k \in {} |-> k]
NoBody == [name |-> "", email |-> "", password |-> ""]

\* token values a client may present
NoToken == [kind |-> "undefined", email |-> "", iat |-> 0, exp |-> 0, key |-> ""]
EmptyToken == [kind |-> "empty", email |-> "", iat |-> 0, exp |-> 0, key |-> ""]
Malformed == [kind |-> "malformed", email |-> "", iat |-> 0, exp |-> 0, key |-> ""]

\* JavaScript !x: for a string of the model, and for a token value
Falsy(x) == x = ""
FalsyToken(token) == token.kind \in {"undefined", "empty"}

\* ------------------------------------------------------------- collaborators
\* newAccountValidation(name, email, password): true or an error string
newAccountValidation(name, email, password) ==
    IF name = "" THEN "Invalid name"
    ELSE IF email = "" THEN "Invalid email"
    ELSE IF password = "" THEN "Invalid password"
    ELSE "true"

\* serverResponse(success, status, message) and (success, status, data)
serverResponse(success, status, message, data) ==
    [success |-> success, status |-> status, message |-> message, data |-> data]

serverOk(message) == serverResponse(TRUE, 200, message, NoData)
serverBadRequest(message) == serverResponse(FALSE, 400, message, NoData)
serverForbidden(message) == serverResponse(FALSE, 403, message, NoData)
serverNotFound(message) == serverResponse(FALSE, 404, message, NoData)

\* UserAccount.findOne({ email }): the first document with the email, or null
Matching(s, email) == {i \in 1..Len(s) : s[i].email = email}
Min(S) == CHOOSE i \in S : \A j \in S : i <= j
findOne(s, email) ==
    IF Matching(s, email) = {} THEN NoData ELSE s[Min(Matching(s, email))]

\* UserAccount.findById(user_id)
findById(s, id) == IF id \in 1..Len(s) THEN s[id] ELSE NoData

\* new UserAccount({...}).save(): the document is added; no unique index
save(s, name, email, password) ==
    Append(s, [_id |-> Len(s) + 1, name |-> name, email |-> email,
               password |-> password])

\* bcryptjs.hash(s, rounds) and bcryptjs.compareSync(s, hash)
bcryptHash(s, rounds) == [alg |-> "bcrypt", rounds |-> rounds, of |-> s]
compareSync(s, hash) == hash = bcryptHash(s, hash.rounds)

\* jwt.sign(payload, secret, { expiresIn }) at time t
jwtSign(email, secret, expiresIn, t) ==
    [kind |-> "jwt", email |-> email, iat |-> t, exp |-> t + expiresIn,
     key |-> secret]

\* jwt.verify(token, secret) at time t: "ok" or the error's name
jwtVerify(token, secret, t) ==
    IF token.kind # "jwt" THEN "JsonWebTokenError"
    ELSE IF token.key # secret THEN "JsonWebTokenError"
    ELSE IF t >= token.exp THEN "TokenExpiredError"
    ELSE "ok"

\* ------------------------------------------------------------- state
Init ==
    /\ store = << >>
    /\ pc = [p \in Procs |-> "idle"]
    /\ body = [p \in Procs |-> NoBody]
    /\ overlap = FALSE
    /\ now = 0
    /\ jar = NoToken
    /\ last = [op |-> "none", req |-> NoData, res |-> serverOk(""),
               setCookie |-> NoToken, at |-> 0]

\* a request, the answer it got, the cookie the answer set, and when
Answer(op, req, res, cookie) ==
    [op |-> op, req |-> req, res |-> res, setCookie |-> cookie, at |-> now]

InFlight(p) == pc[p] # "idle"

\* ------------------------------------------------------------- createUser
\* lines 16-20: the request arrives and is validated
CreateUserValidate(p, name, email, password) ==
    /\ pc[p] = "idle"
    /\ LET validation == newAccountValidation(name, email, password)
           rq == [name |-> name, email |-> email, password |-> password]
       IN IF validation # "true"
          THEN /\ last' = Answer("createUser", rq, serverBadRequest(validation), NoToken)
               /\ UNCHANGED <<pc, body, overlap>>
          ELSE /\ pc' = [pc EXCEPT ![p] = "findOne"]
               /\ body' = [body EXCEPT ![p] = rq]
               /\ overlap' = (overlap \/ \E q \in Procs \ {p} : InFlight(q))
               /\ UNCHANGED last
    /\ UNCHANGED <<store, now, jar>>

\* createUser without its duplicate check
CreateUserFindOneNoCheck(p) ==
    /\ pc[p] = "findOne"
    /\ pc' = [pc EXCEPT ![p] = "save"]
    /\ UNCHANGED <<store, body, overlap, now, jar, last>>

\* lines 23-26: the duplicate check
CreateUserFindOne(p) ==
    /\ pc[p] = "findOne"
    /\ LET existingUser == findOne(store, body[p].email)
       IN IF existingUser # NoData
          THEN /\ last' = Answer("createUser", body[p],
                                 serverBadRequest("Email already exists"), NoToken)
               /\ pc' = [pc EXCEPT ![p] = "idle"]
               /\ body' = [body EXCEPT ![p] = NoBody]
          ELSE /\ pc' = [pc EXCEPT ![p] = "save"]
               /\ UNCHANGED <<body, last>>
    /\ UNCHANGED <<store, overlap, now, jar>>

\* createUser whose save refuses an email the store already holds
CreateUserSaveUnique(p) ==
    /\ pc[p] = "save"
    /\ Len(store) < MaxUsers
    /\ IF findOne(store, body[p].email) # NoData
       THEN /\ last' = Answer("createUser", body[p],
                              serverBadRequest("Email already exists"), NoToken)
            /\ UNCHANGED store
       ELSE /\ store' = save(store, body[p].name, body[p].email,
                             bcryptHash(body[p].password, SaltRounds))
            /\ last' = Answer("createUser", body[p], serverOk(""), NoToken)
    /\ pc' = [pc EXCEPT ![p] = "idle"]
    /\ body' = [body EXCEPT ![p] = NoBody]
    /\ UNCHANGED <<overlap, now, jar>>

\* createUser whose save replaces the collection by the new document
CreateUserSaveOverwrite(p) ==
    /\ pc[p] = "save"
    /\ Len(store) < MaxUsers
    /\ store' = save(<< >>, body[p].name, body[p].email,
                     bcryptHash(body[p].password, SaltRounds))
    /\ last' = Answer("createUser", body[p], serverOk(""), NoToken)
    /\ pc' = [pc EXCEPT ![p] = "idle"]
    /\ body' = [body EXCEPT ![p] = NoBody]
    /\ UNCHANGED <<overlap, now, jar>>

\* lines 29-39: hash the password, save the document, answer 200
CreateUserSave(p) ==
    /\ pc[p] = "save"
    /\ Len(store) < MaxUsers
    /\ LET hashPassword == bcryptHash(body[p].password, SaltRounds)
       IN store' = save(store, body[p].name, body[p].email, hashPassword)
    /\ last' = Answer("createUser", body[p], serverOk(""), NoToken)
    /\ pc' = [pc EXCEPT ![p] = "idle"]
    /\ body' = [body EXCEPT ![p] = NoBody]
    /\ UNCHANGED <<overlap, now, jar>>

\* ------------------------------------------------------------- loginUser
\* the whole document, password included
RestWithPassword(doc) == doc

\* the document without its password field (line 68)
Rest(doc) == [k \in DOMAIN doc \ {"password"} |-> doc[k]]

\* loginUser signing with expiresIn: '1d'
LoginOutcomeOneDay(s, email, password, t) ==
    LET validUser == findOne(s, email)
    IN IF Falsy(email) \/ Falsy(password)
       THEN [res |-> serverBadRequest("Email and password are required"),
             cookie |-> NoToken]
       ELSE IF validUser = NoData
       THEN [res |-> serverNotFound("User not found"), cookie |-> NoToken]
       ELSE IF ~compareSync(password, validUser.password)
       THEN [res |-> serverResponse(FALSE, 401, "Incorrect password", NoData),
             cookie |-> NoToken]
       ELSE [res |-> serverResponse(TRUE, 200, "", [user |-> Rest(validUser)]),
             cookie |-> jwtSign(validUser.email, JWT_SECRET, 24 * ExpiresIn, t)]

\* loginUser looking the user up before it checks that the fields are there
LoginOutcomeLookupFirst(s, email, password, t) ==
    LET validUser == findOne(s, email)
    IN IF validUser = NoData
       THEN [res |-> serverNotFound("User not found"), cookie |-> NoToken]
       ELSE IF Falsy(email) \/ Falsy(password)
       THEN [res |-> serverBadRequest("Email and password are required"),
             cookie |-> NoToken]
       ELSE IF ~compareSync(password, validUser.password)
       THEN [res |-> serverResponse(FALSE, 401, "Incorrect password", NoData),
             cookie |-> NoToken]
       ELSE [res |-> serverResponse(TRUE, 200, "", [user |-> Rest(validUser)]),
             cookie |-> jwtSign(validUser.email, JWT_SECRET, ExpiresIn, t)]

\* loginUser going on past the 401 branch: the token is signed all the same
LoginOutcomeCookieOn401(s, email, password, t) ==
    LET validUser == findOne(s, email)
    IN IF Falsy(email) \/ Falsy(password)
       THEN [res |-> serverBadRequest("Email and password are required"),
             cookie |-> NoToken]
       ELSE IF validUser = NoData
       THEN [res |-> serverNotFound("User not found"), cookie |-> NoToken]
       ELSE IF ~compareSync(password, validUser.password)
       THEN [res |-> serverResponse(FALSE, 401, "Incorrect password", NoData),
             cookie |-> jwtSign(validUser.email, JWT_SECRET, ExpiresIn, t)]
       ELSE [res |-> serverResponse(TRUE, 200, "", [user |-> Rest(validUser)]),
             cookie |-> jwtSign(validUser.email, JWT_SECRET, ExpiresIn, t)]

\* lines 51-72: the response and the cookie it sets (NoToken: none)
LoginOutcome(s, email, password, t) ==
    LET validUser == findOne(s, email)
    IN IF Falsy(email) \/ Falsy(password)
       THEN [res |-> serverBadRequest("Email and password are required"),
             cookie |-> NoToken]
       ELSE IF validUser = NoData
       THEN [res |-> serverNotFound("User not found"), cookie |-> NoToken]
       ELSE IF ~compareSync(password, validUser.password)
       THEN [res |-> serverResponse(FALSE, 401, "Incorrect password", NoData),
             cookie |-> NoToken]
       ELSE [res |-> serverResponse(TRUE, 200, "", [user |-> Rest(validUser)]),
             cookie |-> jwtSign(validUser.email, JWT_SECRET, ExpiresIn, t)]

LoginUser(email, password) ==
    LET out == LoginOutcome(store, email, password, now)
    IN /\ last' = Answer("loginUser", [email |-> email, password |-> password],
                         out.res, out.cookie)
       /\ jar' = IF out.cookie = NoToken THEN jar ELSE out.cookie
       /\ UNCHANGED <<store, pc, body, overlap, now>>

\* ------------------------------------------------------------- tokens
\* what a client can send: its cookie, nothing, or something it made up
Presentable ==
    {jar, NoToken, EmptyToken, Malformed,
     jwtSign("a@x.com", OtherKey, ExpiresIn, now)}

\* isTokenOk without its empty check: a missing cookie goes to jwt.verify
IsTokenOkOutcomeNoEmptyCheck(token, t) ==
    IF jwtVerify(token, JWT_SECRET, t) # "ok"
    THEN serverForbidden("Invalid or expired token")
    ELSE serverOk("Token accepted")

\* lines 84-90
IsTokenOkOutcome(token, t) ==
    IF FalsyToken(token) THEN serverBadRequest("Empty token!")
    ELSE IF jwtVerify(token, JWT_SECRET, t) # "ok"
    THEN serverForbidden("Invalid or expired token")
    ELSE serverOk("Token accepted")

IsTokenOk(token) ==
    /\ last' = Answer("isTokenOk", [access_token |-> token],
                      IsTokenOkOutcome(token, now), NoToken)
    /\ UNCHANGED <<store, pc, body, overlap, now, jar>>

\* validateClientToken without its try/catch: a failed verification throws
ValidateOutcomeRethrow(token, t) ==
    IF FalsyToken(token) THEN [kind |-> "throw", message |-> "Empty Token", value |-> FALSE]
    ELSE IF jwtVerify(token, JWT_SECRET, t) = "ok"
    THEN [kind |-> "return", message |-> "", value |-> TRUE]
    ELSE [kind |-> "throw", message |-> jwtVerify(token, JWT_SECRET, t), value |-> FALSE]

\* lines 94-103: "throw" with the error's message, or the value returned
ValidateOutcome(token, t) ==
    IF FalsyToken(token) THEN [kind |-> "throw", message |-> "Empty Token", value |-> FALSE]
    ELSE IF jwtVerify(token, JWT_SECRET, t) = "ok"
    THEN [kind |-> "return", message |-> "", value |-> TRUE]
    ELSE [kind |-> "return", message |-> "", value |-> FALSE]

ValidateClientToken(token) ==
    /\ last' = Answer("validateClientToken", [token |-> token],
                      ValidateOutcome(token, now), NoToken)
    /\ UNCHANGED <<store, pc, body, overlap, now, jar>>

\* lines 105-108
IsUserExist(user_id) ==
    /\ last' = Answer("isUserExist", [user_id |-> user_id],
                      [user |-> findById(store, user_id)], NoToken)
    /\ UNCHANGED <<store, pc, body, overlap, now, jar>>

\* the clock
Tick ==
    /\ now + TickSeconds <= MaxTime
    /\ now' = now + TickSeconds
    /\ UNCHANGED <<store, pc, body, overlap, jar, last>>

\* every handler, createUser requests running concurrently, at one instant
Next ==
    \/ \E p \in Procs, name \in Names, email \in Emails, password \in Passwords :
         CreateUserValidate(p, name, email, password)
    \/ \E p \in Procs : CreateUserFindOne(p)
    \/ \E p \in Procs : CreateUserSave(p)
    \/ \E email \in Emails, password \in Passwords : LoginUser(email, password)
    \/ \E token \in Presentable : IsTokenOk(token)
    \/ \E token \in Presentable : ValidateClientToken(token)
    \/ \E user_id \in 1..(MaxUsers + 1) : IsUserExist(user_id)

Spec == Init /\ [][Next]_vars

\* every handler while the clock runs, createUser requests one at a time
NextClock ==
    \/ \E name \in Names, email \in Emails, password \in Passwords :
         CreateUserValidate(1, name, email, password)
    \/ CreateUserFindOne(1)
    \/ CreateUserSave(1)
    \/ \E email \in Emails, password \in Passwords : LoginUser(email, password)
    \/ \E token \in Presentable : IsTokenOk(token)
    \/ \E token \in Presentable : ValidateClientToken(token)
    \/ \E user_id \in 1..(MaxUsers + 1) : IsUserExist(user_id)
    \/ Tick

SpecClock == Init /\ [][NextClock]_vars

\* ------------------------------------------------------------- properties
EmailStored(email) == \E i \in 1..Len(store) : store[i].email = email
NoDupEmails ==
    \A i, j \in 1..Len(store) : store[i].email = store[j].email => i = j
\* a token loginUser signed: only loginUser holds the secret
IssuedByLogin(token) == token.kind = "jwt" /\ token.key = JWT_SECRET
\* steps: a createUser request is answered at its validation, or at its save
AnsweredAtValidation ==
    pc' = pc /\ last' # last /\ last'.op = "createUser"
Saves(p) == pc[p] = "save" /\ pc'[p] = "idle"

\* C1: a loginUser with the email and the password of an account that a
\* createUser answered 200 has stored is answered 200.
C1_RegisteredLoginSucceeds ==
    (/\ last.op = "loginUser"
     /\ \E i \in 1..Len(store) :
            /\ store[i].email = last.req.email
            /\ store[i].password = bcryptHash(last.req.password, SaltRounds))
    => last.res.status = 200

\* C2 as stated: a createUser called with an email that a stored account has
\* is answered 400 "Email already exists", whatever the name and the password
\* are, and writes nothing.
C2_AlwaysDuplicate400 ==
    [][/\ (AnsweredAtValidation /\ EmailStored(last'.req.email))
            => (/\ last'.res = serverBadRequest("Email already exists")
                /\ store' = store)
       /\ \A p \in Procs :
            (pc[p] = "findOne" /\ pc'[p] # "findOne" /\ EmailStored(body[p].email))
            => (/\ last'.res = serverBadRequest("Email already exists")
                /\ store' = store)]_vars

\* C2 amended: a createUser called with an email that a stored account has
\* writes nothing and is answered 400: with the validation message when the
\* name or the password fails validation, with "Email already exists" when
\* they pass.
C2_Duplicate400AfterValidation ==
    [][/\ (AnsweredAtValidation /\ EmailStored(last'.req.email))
            => (/\ last'.res.status = 400
                /\ last'.res.message \in {"Invalid name", "Invalid password"}
                /\ last'.res.message # "Email already exists"
                /\ last'.req.name = "" \/ last'.req.password = ""
                /\ store' = store)
       /\ \A p \in Procs :
            (pc[p] = "findOne" /\ pc'[p] # "findOne" /\ EmailStored(body[p].email))
            => (/\ pc'[p] = "idle"
                /\ last'.op = "createUser"
                /\ last'.req = body[p]
                /\ last'.res = serverBadRequest("Email already exists")
                /\ store' = store)]_vars

C2_Witness ==
    /\ last.op = "createUser"
    /\ EmailStored(last.req.email)
    /\ last.req.name # "" /\ last.req.password # ""
    /\ last.res.status = 400
    /\ last.res.message = "Email already exists"

\* C3: no response body of createUser, loginUser or isTokenOk has a password
\* field, and the user of a 200 loginUser response is the stored account
\* without its password field.
C3_NoPasswordInResponse ==
    last.op \in {"createUser", "loginUser", "isTokenOk"} =>
        /\ "password" \notin DOMAIN last.res
        /\ "password" \notin DOMAIN last.res.data
        /\ "user" \in DOMAIN last.res.data =>
            LET user == last.res.data.user
                doc == findOne(store, last.req.email)
            IN /\ "password" \notin DOMAIN user
               /\ "password" \in DOMAIN doc
               /\ DOMAIN user = DOMAIN doc \ {"password"}
               /\ \A k \in DOMAIN user : user[k] = doc[k]
        /\ (last.op = "loginUser" /\ last.res.status = 200)
            => "user" \in DOMAIN last.res.data

C3_Witness ==
    /\ last.op = "loginUser"
    /\ last.res.status = 200
    /\ last.res.data.user.email = last.req.email
    /\ findOne(store, last.req.email).password
         = bcryptHash(last.req.password, SaltRounds)

\* C4: a token loginUser issued at time t is accepted by isTokenOk (200
\* "Token accepted") and by validateClientToken (true) at every time before
\* t + 1 hour and rejected by both (403 "Invalid or expired token", false) at
\* every time after it, and the two never disagree on it.
C4_TokenLifetime ==
    /\ (last.op = "isTokenOk" /\ IssuedByLogin(last.req.access_token)) =>
         LET t == last.req.access_token.iat
         IN /\ last.at < t + 60 * 60 => last.res = serverOk("Token accepted")
            /\ last.at > t + 60 * 60
                 => last.res = serverForbidden("Invalid or expired token")
    /\ (last.op = "validateClientToken" /\ IssuedByLogin(last.req.token)) =>
         LET t == last.req.token.iat
         IN /\ last.at < t + 60 * 60 => (last.res.kind = "return" /\ last.res.value)
            /\ last.at > t + 60 * 60 => (last.res.kind = "return" /\ ~last.res.value)
    /\ IssuedByLogin(jar) =>
         /\ jar.iat <= now
         /\ (IsTokenOkOutcome(jar, now).status = 200)
              <=> (ValidateOutcome(jar, now).kind = "return"
                   /\ ValidateOutcome(jar, now).value)
         /\ IsTokenOkOutcome(jar, now).status \in {200, 403}
         /\ ValidateOutcome(jar, now).kind = "return"

C4_Witness ==
    /\ last.op = "isTokenOk"
    /\ IssuedByLogin(last.req.access_token)
    /\ last.at > last.req.access_token.iat + 60 * 60
    /\ last.res.status = 403

\* C5: validateClientToken throws "Empty Token" exactly when the token is
\* absent or empty; for any other token it returns a boolean, true exactly
\* when the token verifies, false for every failure alike.
C5_ValidateClientToken ==
    last.op = "validateClientToken" =>
        LET token == last.req.token
            verifies == /\ token.kind = "jwt"
                        /\ token.key = JWT_SECRET
                        /\ last.at < token.exp
        IN /\ (last.res.kind = "throw") <=> (token \in {NoToken, EmptyToken})
           /\ last.res.kind = "throw" => last.res.message = "Empty Token"
           /\ last.res.kind \in {"throw", "return"}
           /\ last.res.kind = "return" =>
                /\ last.res.value \in BOOLEAN
                /\ last.res.value <=> verifies
                /\ last.res.message = ""

C5_Witness ==
    /\ last.op = "validateClientToken"
    /\ last.req.token.kind = "jwt"
    /\ last.req.token.key = JWT_SECRET
    /\ last.at >= last.req.token.exp
    /\ last.res.kind = "return"
    /\ last.res.value = FALSE

\* C6: loginUser answers with the first failure that applies: 400 when the
\* email or the password is empty, else 404 when no account has the email,
\* else 401 when the password does not match the stored hash, else 200.
C6_LoginOrder ==
    last.op = "loginUser" =>
        LET email == last.req.email
            password == last.req.password
        IN /\ last.res.status \in {400, 404, 401, 200}
           /\ (email = "" \/ password = "") =>
                last.res = serverBadRequest("Email and password are required")
           /\ (email # "" /\ password # "" /\ ~EmailStored(email)) =>
                last.res = serverNotFound("User not found")
           /\ (email # "" /\ password # "" /\ EmailStored(email)
               /\ findOne(store, email).password # bcryptHash(password, SaltRounds)) =>
                (/\ last.res.status = 401
                 /\ last.res.message = "Incorrect password"
                 /\ ~last.res.success)
           /\ (email # "" /\ password # "" /\ EmailStored(email)
               /\ findOne(store, email).password = bcryptHash(password, SaltRounds)) =>
                (last.res.status = 200 /\ last.res.success)

C6_Witness ==
    /\ last.op = "loginUser"
    /\ last.req.email # ""
    /\ ~EmailStored(last.req.email)
    /\ last.req.password = ""
    /\ last.res.status = 400

\* C7 as stated: isTokenOk answers 400 "Empty token!" when the cookie is
\* missing, 403 "Invalid or expired token" when the cookie is there and does
\* not verify, 200 "Token accepted" when it verifies.
C7_MissingOnly400 ==
    last.op = "isTokenOk" =>
        LET token == last.req.access_token
            verifies == /\ token.kind = "jwt"
                        /\ token.key = JWT_SECRET
                        /\ last.at < token.exp
        IN /\ token = NoToken => last.res = serverBadRequest("Empty token!")
           /\ (token # NoToken /\ ~verifies)
                => last.res = serverForbidden("Invalid or expired token")
           /\ verifies => last.res = serverOk("Token accepted")

\* C7 amended: isTokenOk answers 400 "Empty token!" when the cookie is missing
\* or empty, 403 "Invalid or expired token" when the cookie is not empty and
\* does not verify, 200 "Token accepted" when it verifies; it changes neither
\* the store nor the cookie.
C7_IsTokenOk ==
    /\ [](last.op = "isTokenOk" =>
            LET token == last.req.access_token
                verifies == /\ token.kind = "jwt"
                            /\ token.key = JWT_SECRET
                            /\ last.at < token.exp
            IN /\ token \in {NoToken, EmptyToken}
                    => last.res = serverBadRequest("Empty token!")
               /\ (token \notin {NoToken, EmptyToken} /\ ~verifies)
                    => last.res = serverForbidden("Invalid or expired token")
               /\ verifies => last.res = serverOk("Token accepted")
               /\ last.setCookie = NoToken)
    /\ [][(last' # last /\ last'.op = "isTokenOk")
            => (store' = store /\ jar' = jar)]_vars

C7_Witness ==
    /\ last.op = "isTokenOk"
    /\ last.req.access_token = EmptyToken
    /\ last.res.status = 400
    /\ last.res.message = "Empty token!"

\* C8: a createUser that has passed its duplicate check saves and answers 200
\* whatever the store holds by then, so two requests with one email that both
\* looked up before either saved leave two accounts with that email; as long
\* as createUser requests have run one at a time, no two accounts share an
\* email.
C8_CheckThenInsert ==
    /\ [](~overlap => NoDupEmails)
    /\ [][\A p \in Procs : Saves(p) =>
            /\ last'.op = "createUser"
            /\ last'.req = body[p]
            /\ last'.res.status = 200
            /\ Len(store') = Len(store) + 1
            /\ store'[Len(store')].email = body[p].email]_vars

C8_Witness ==
    /\ overlap
    /\ Len(store) = 2
    /\ store[1].email = store[2].email
    /\ last.op = "createUser"
    /\ last.res.status = 200
    /\ \A p \in Procs : pc[p] = "idle"

\* C9: the store changes only when a createUser answers 200, which adds one
\* account after the others and leaves them as they were; a createUser
\* answered 400 and every other operation leave the store as it was.
C9_StoreFrame ==
    [][/\ store' # store =>
            \E p \in Procs :
                /\ Saves(p)
                /\ last'.op = "createUser"
                /\ last'.res.status = 200
       /\ \A p \in Procs : Saves(p) =>
            /\ Len(store') = Len(store) + 1
            /\ SubSeq(store', 1, Len(store)) = store
            /\ store'[Len(store')].email = body[p].email
       /\ (last' # last /\ ~(last'.op = "createUser" /\ last'.res.status = 200))
            => store' = store]_vars

C9_Witness ==
    /\ Len(store) = 2
    /\ store[1].email # store[2].email
    /\ last.op = "createUser"
    /\ last.res.status = 200

\* C10: loginUser signs a token and sets the access_token cookie exactly when
\* it answers 200; the token carries the email of the account it looked up;
\* the cookie changes at no other time.
C10_CookieIffSuccess ==
    /\ [](last.op = "loginUser" =>
            /\ (last.setCookie # NoToken) <=> (last.res.status = 200)
            /\ last.res.status \in {400, 404, 401} => last.setCookie = NoToken
            /\ last.res.status = 200 =>
                /\ last.setCookie.kind = "jwt"
                /\ last.setCookie.email = last.req.email
                /\ last.setCookie.email = last.res.data.user.email
                /\ jar = last.setCookie)
    /\ [][jar' # jar =>
            /\ last'.op = "loginUser"
            /\ last'.res.status = 200
            /\ jar' = last'.setCookie]_vars

C10_Witness ==
    /\ last.op = "loginUser"
    /\ last.res.status = 401
    /\ last.setCookie = NoToken
    /\ jar # NoToken

====
